---- MODULE Spec2Model ----
\* Model of the LISTIC dashboard API: the statistics services of
\* services/hal.py and services/dblp.py and the routes of main.py that call them.
\*
\* Values. A Python string is a sequence of one-character strings, so that
\* split(), lower(), upper(), isdigit(), int() and the substring test act on it
\* as they do in the code. A JSON value is a tagged record: None (an absent key,
\* what d.get(k) returns), JInt, JStr, JList (of JSON values), JDict. A Python
\* dict built by Counter is the sequence of its [k, n] items in insertion order.
EXTENDS Integers, Sequences, FiniteSets, TLC

VARIABLES pc, route, req, halCall, dblpCall, hal_data, dblp_data, response

vars == <<pc, route, req, halCall, dblpCall, hal_data, dblp_data, response>>

\* ---------------------------------------------------------------- bounds
MaxDocs == 2
MaxYear == 2
MaxFilterDocs == 2
MaxRecent == 6
MaxNameLen == 4
MaxPairs == 2

\* ------------------------------------------------------- program constants
RecentCap == 5
TopKeywords == 20
TopTen == 10

\* ------------------------------------------------------------ JSON values
None == [t |-> "none"]
JInt(n) == [t |-> "int", i |-> n]
JStr(s) == [t |-> "str", v |-> s]
JList(l) == [t |-> "list", items |-> l]
JDict(text) == [t |-> "dict", text |-> text]

\* Python truth value of a JSON value: None, 0, "" and [] are false.
Truthy(x) ==
    CASE x.t = "none" -> FALSE
      [] x.t = "int" -> x.i # 0
      [] x.t = "str" -> x.v # <<>>
      [] x.t = "list" -> x.items # <<>>
      [] OTHER -> TRUE

Range(s) == {s[i] : i \in 1..Len(s)}

Min(a, b) == IF a < b THEN a ELSE b

\* seq[:n]
Take(s, n) == SubSeq(s, 1, Min(n, Len(s)))

RECURSIVE Concat(_)
Concat(ss) == IF ss = <<>> THEN <<>> ELSE Head(ss) \o Concat(Tail(ss))

RECURSIVE SumN(_)
SumN(items) == IF items = <<>> THEN 0 ELSE Head(items).n + SumN(Tail(items))

\* All sequences over S of length 0..n
SeqsUpTo(S, n) == UNION {[1..k -> S] : k \in 0..n}

\* ---------------------------------------------------------------- strings
LowerLetters ==
    <<"a", "b", "c", "d", "e", "f", "g", "h", "i", "j", "k", "l", "m",
      "n", "o", "p", "q", "r", "s", "t", "u", "v", "w", "x", "y", "z">>

UpperLetters ==
    <<"A", "B", "C", "D", "E", "F", "G", "H", "I", "J", "K", "L", "M",
      "N", "O", "P", "Q", "R", "S", "T", "U", "V", "W", "X", "Y", "Z">>

LowerChar(c) ==
    IF \E i \in 1..Len(UpperLetters) : UpperLetters[i] = c
        THEN LowerLetters[CHOOSE i \in 1..Len(UpperLetters) : UpperLetters[i] = c]
        ELSE c

UpperChar(c) ==
    IF \E i \in 1..Len(LowerLetters) : LowerLetters[i] = c
        THEN UpperLetters[CHOOSE i \in 1..Len(LowerLetters) : LowerLetters[i] = c]
        ELSE c

lower(s) == [i \in 1..Len(s) |-> LowerChar(s[i])]

upper(s) == [i \in 1..Len(s) |-> UpperChar(s[i])]

IsSpace(c) == c = " "

\* Length of the leading run of non-space characters of s
RECURSIVE WordLen(_)
WordLen(s) ==
    IF s = <<>> \/ IsSpace(Head(s)) THEN 0 ELSE 1 + WordLen(Tail(s))

\* str.split(): the maximal runs of non-space characters
RECURSIVE split(_)
split(s) ==
    IF s = <<>> THEN <<>>
    ELSE IF IsSpace(Head(s)) THEN split(Tail(s))
    ELSE <<SubSeq(s, 1, WordLen(s))>> \o split(SubSeq(s, WordLen(s) + 1, Len(s)))

\* sep.join(parts)
RECURSIVE join(_, _)
join(sep, parts) ==
    IF parts = <<>> THEN <<>>
    ELSE IF Len(parts) = 1 THEN Head(parts)
    ELSE Head(parts) \o sep \o join(sep, Tail(parts))

\* " ".join(name.split())
clean_name(name) == join(<<" ">>, split(name))

\* sub in s
Contains(sub, s) ==
    \E i \in 0..(Len(s) - Len(sub)) : SubSeq(s, i + 1, i + Len(sub)) = sub

\* keyword.replace('"', '\\"')
RECURSIVE safe_keyword(_)
safe_keyword(k) ==
    IF k = <<>> THEN <<>>
    ELSE (IF Head(k) = "\"" THEN <<"\\", "\"">> ELSE <<Head(k)>>) \o safe_keyword(Tail(k))

Digits == <<"0", "1", "2", "3", "4", "5", "6", "7", "8", "9">>

IsDigit(c) == \E i \in 1..Len(Digits) : Digits[i] = c

DigitVal(c) == (CHOOSE i \in 1..Len(Digits) : Digits[i] = c) - 1

\* str.isdigit()
isdigit(s) == s # <<>> /\ \A i \in 1..Len(s) : IsDigit(s[i])

\* int(s) of a digit string
RECURSIVE int(_)
int(s) ==
    IF s = <<>> THEN 0
    ELSE 10 * int(SubSeq(s, 1, Len(s) - 1)) + DigitVal(s[Len(s)])

\* --------------------------------------------------------------- counting
\* The distinct elements of xs in order of first occurrence
RECURSIVE Uniq(_)
Uniq(xs) ==
    IF xs = <<>> THEN <<>>
    ELSE LET r == Uniq(SubSeq(xs, 1, Len(xs) - 1))
             x == xs[Len(xs)]
         IN IF x \in Range(r) THEN r ELSE Append(r, x)

Occurrences(xs, k) == Cardinality({i \in 1..Len(xs) : xs[i] = k})

\* dict(Counter(xs)): the items [k, n] in insertion order
Counter(xs) ==
    LET ks == Uniq(xs)
    IN [i \in 1..Len(ks) |-> [k |-> ks[i], n |-> Occurrences(xs, ks[i])]]

\* Stable sort of items by field n, descending (sorted(..., reverse=True))
RECURSIVE SortDesc(_)
SortDesc(items) ==
    IF items = <<>> THEN <<>>
    ELSE LET r == SortDesc(SubSeq(items, 1, Len(items) - 1))
             x == items[Len(items)]
             \* x goes after every element whose n is >= x.n
             p == Cardinality({i \in 1..Len(r) : r[i].n >= x.n})
         IN SubSeq(r, 1, p) \o <<x>> \o SubSeq(r, p + 1, Len(r))

\* dict(Counter(xs).most_common(n))
most_common(xs, n) == Take(SortDesc(Counter(xs)), n)

\* ----------------------------------------------------- upstream outcomes
\* What one HTTP GET can come back with: a 2xx JSON document (kind "ok", with
\* the records it carries), or a failure raised inside the try block.
Failures == {[kind |-> "timeout"], [kind |-> "status"], [kind |-> "json"]}

\* str(e)
Cause(outcome) == outcome.kind

\* ------------------------------------------------- services/hal.py: person
Star == [t |-> "star"]

\* The filters list of get_hal_stats. " AND ".join(filters) is kept as the
\* sequence of its clauses.
hal_filters(start_year, end_year, keyword) ==
    (IF Truthy(start_year) \/ Truthy(end_year)
        THEN <<[field |-> "producedDateY_i",
                lo |-> IF Truthy(start_year) THEN start_year ELSE Star,
                hi |-> IF Truthy(end_year) THEN end_year ELSE Star]>>
        ELSE <<>>)
    \o
    (IF Truthy(keyword)
        THEN <<[field |-> "keyword_s", term |-> safe_keyword(keyword.v)]>>
        ELSE <<>>)

\* params["fq"]: assigned inside the `if keyword:` block only
hal_fq(start_year, end_year, keyword) ==
    IF Truthy(keyword)
        THEN [set |-> TRUE, clauses |-> hal_filters(start_year, end_year, keyword)]
        ELSE [set |-> FALSE]

hal_params(name, start_year, end_year, keyword) ==
    [q |-> [field |-> "authFullName_t", phrase |-> clean_name(name.v)],
     rows |-> 500,
     sort |-> "producedDateY_i desc",
     fq |-> hal_fq(start_year, end_year, keyword)]

\* A scalar-or-list field as a list of strings (absent: the empty list)
AsList(x) ==
    CASE x.t = "none" -> <<>>
      [] x.t = "str" -> <<x.v>>
      [] OTHER -> [i \in 1..Len(x.items) |-> x.items[i].v]

year_dropped(d, start_year, end_year) ==
    LET y == d.producedDateY_i
    IN \/ (Truthy(start_year) /\ Truthy(y) /\ y.i < start_year.i)
       \/ (Truthy(end_year) /\ Truthy(y) /\ y.i > end_year.i)

keyword_dropped(d, keyword) ==
    /\ Truthy(keyword)
    /\ LET kws == AsList(d.keyword_s)
       IN ~ \E i \in 1..Len(kws) : Contains(lower(keyword.v), lower(kws[i]))

hal_keep(d, start_year, end_year, keyword) ==
    ~ year_dropped(d, start_year, end_year) /\ ~ keyword_dropped(d, keyword)

filtered_docs(docs, start_year, end_year, keyword) ==
    SelectSeq(docs, LAMBDA d : hal_keep(d, start_year, end_year, keyword))

\* The value returned for an empty record set
hal_empty ==
    [found |-> TRUE, source |-> "HAL", count |-> 0, total_publications |-> 0,
     years_distribution |-> <<>>, types_distribution |-> <<>>,
     top_keywords |-> <<>>, top_collaborators |-> <<>>, top_journals |-> <<>>,
     recent_publications |-> <<>>]

hal_years(docs) ==
    LET ds == SelectSeq(docs, LAMBDA d : Truthy(d.producedDateY_i))
    IN [i \in 1..Len(ds) |-> ds[i].producedDateY_i.i]

hal_types(docs) ==
    LET ds == SelectSeq(docs, LAMBDA d : Truthy(d.docType_s))
    IN [i \in 1..Len(ds) |-> ds[i].docType_s.v]

hal_keywords(docs) ==
    Concat([i \in 1..Len(docs) |->
        IF Truthy(docs[i].keyword_s) THEN AsList(docs[i].keyword_s) ELSE <<>>])

\* researcher_name_lower = name.lower(); auth.lower() != researcher_name_lower
hal_is_self(auth, name) == lower(auth) = lower(name.v)

hal_co_authors(docs, name) ==
    Concat([i \in 1..Len(docs) |->
        IF Truthy(docs[i].authFullName_s)
            THEN SelectSeq(AsList(docs[i].authFullName_s),
                           LAMBDA auth : ~ hal_is_self(auth, name))
            ELSE <<>>])

hal_journals(docs) ==
    LET ds == SelectSeq(docs, LAMBDA d : Truthy(d.journalTitle_s))
    IN [i \in 1..Len(ds) |-> ds[i].journalTitle_s.v]

\* docs[:5]
hal_recent(docs) == Take(docs, RecentCap)

hal_stats(docs, name) ==
    [found |-> TRUE, source |-> "HAL",
     total_publications |-> Len(docs),
     years_distribution |-> Counter(hal_years(docs)),
     types_distribution |-> Counter(hal_types(docs)),
     top_keywords |-> most_common(hal_keywords(docs), TopKeywords),
     top_collaborators |-> most_common(hal_co_authors(docs, name), TopTen),
     top_journals |-> most_common(hal_journals(docs), TopTen),
     recent_publications |-> hal_recent(docs)]

hal_error(outcome) == [error |-> Cause(outcome), source |-> "HAL"]

\* The body of get_hal_stats from the response on (the try block)
get_hal_stats(name, start_year, end_year, keyword, outcome) ==
    IF outcome.kind # "ok" THEN hal_error(outcome)
    ELSE LET docs == filtered_docs(outcome.docs, start_year, end_year, keyword)
         IN IF docs = <<>> THEN hal_empty ELSE hal_stats(docs, name)

\* name.split() before the try block: AttributeError when name is None
hal_raises(name) == name.t = "none"

\* ------------------------------------------------------- services/dblp.py
\* A hit is its info object: [authors, year, type, venue, title, url], where
\* authors is info["authors"]["author"].
dblp_params(name) == [q |-> clean_name(name.v), format |-> "json", h |-> 500]

\* clean_name = " ".join(name.split()) before the try block
dblp_raises(name) == name.t = "none"

\* "".join(x.split()).lower()
squash(s) == lower(Concat(split(s)))

\* authors_list after the isinstance coercions
authors_list(a) ==
    CASE a.t = "none" -> <<>>
      [] a.t = "str" -> <<a>>
      [] a.t = "dict" -> <<IF a.text.t = "none" THEN JStr(<<>>) ELSE a.text>>
      [] OTHER -> a.items

dblp_is_self(auth, name) == squash(auth) = squash(name.v)

dblp_hit_co_authors(info, name) ==
    LET l == authors_list(info.authors)
        kept == SelectSeq(l, LAMBDA auth :
                    /\ Truthy(auth)
                    /\ auth.t = "str"
                    /\ ~ dblp_is_self(auth.v, name))
    IN [i \in 1..Len(kept) |-> kept[i].v]

dblp_co_authors(hits, name) ==
    Concat([i \in 1..Len(hits) |-> dblp_hit_co_authors(hits[i], name)])

\* int(year) raises ValueError unless the string is a number
int_raises(year) == year.t = "str" /\ ~ isdigit(year.v)

year_int(year) == IF year.t = "int" THEN year.i ELSE int(year.v)

\* venue[0] / type_[0] of an empty list raises IndexError
first_raises(x) == x.t = "list" /\ x.items = <<>>

hit_raises(info) ==
    \/ (Truthy(info.year) /\ int_raises(info.year))
    \/ first_raises(info.venue)
    \/ first_raises(info.type)

dblp_years(hits) ==
    LET hs == SelectSeq(hits, LAMBDA h : Truthy(h.year))
    IN [i \in 1..Len(hs) |-> year_int(hs[i].year)]

\* str(t) of a type that is a string, or of the tuple made of a list
type_str(t) ==
    IF t.t = "list" THEN <<"(">> \o join(<<",">>, AsList(t)) \o <<")">> ELSE t.v

dblp_types(hits) ==
    LET hs == SelectSeq(hits, LAMBDA h : Truthy(h.type))
    IN [i \in 1..Len(hs) |-> type_str(hs[i].type)]

dblp_venues(hits) ==
    Concat([i \in 1..Len(hits) |->
        IF Truthy(hits[i].venue) THEN AsList(hits[i].venue) ELSE <<>>])

First(x) == IF x.t = "list" THEN x.items[1] ELSE x

cleaned_hit(info) ==
    [title |-> info.title, year |-> info.year, venue |-> First(info.venue),
     type |-> First(info.type), url |-> info.url]

\* key=lambda x: int(x.get("year", 0)) if x.get("year") else 0
sort_key(x) == IF Truthy(x.year) THEN year_int(x.year) ELSE 0

\* cleaned_hits.sort(key=..., reverse=True)
sort_cleaned(cleaned) ==
    LET keyed == [i \in 1..Len(cleaned) |-> [n |-> sort_key(cleaned[i]), v |-> cleaned[i]]]
        sorted == SortDesc(keyed)
    IN [i \in 1..Len(sorted) |-> sorted[i].v]

\* cleaned_hits[:5] after the sort
dblp_recent(hits) ==
    Take(sort_cleaned([i \in 1..Len(hits) |-> cleaned_hit(hits[i])]), RecentCap)

dblp_not_found == [found |-> FALSE, source |-> "DBLP", count |-> 0]

dblp_stats(hits, name) ==
    [found |-> TRUE, source |-> "DBLP",
     total_publications |-> Len(hits),
     years_distribution |-> Counter(dblp_years(hits)),
     types_distribution |-> Counter(dblp_types(hits)),
     top_venues |-> most_common(dblp_venues(hits), TopTen),
     top_collaborators |-> most_common(dblp_co_authors(hits, name), TopTen),
     recent_publications |-> dblp_recent(hits)]

dblp_error(cause) == [error |-> cause, source |-> "DBLP"]

\* The body of get_dblp_stats from the response on (the try block)
get_dblp_stats(name, outcome) ==
    IF outcome.kind # "ok" THEN dblp_error(Cause(outcome))
    ELSE IF outcome.hits = <<>> THEN dblp_not_found
    ELSE IF \E i \in 1..Len(outcome.hits) : hit_raises(outcome.hits[i])
        THEN dblp_error("ValueError")
    ELSE dblp_stats(outcome.hits, name)

\* ------------------------------------------------ services/hal.py: project
\* query = f'"{project_name}"': formatting None gives the text None
project_params(project_name) ==
    [q |-> IF project_name.t = "none" THEN <<"N", "o", "n", "e">> ELSE project_name.v,
     rows |-> 100,
     sort |-> "producedDateY_i desc"]

project_authors(docs) ==
    Concat([i \in 1..Len(docs) |->
        IF Truthy(docs[i].authFullName_s) THEN AsList(docs[i].authFullName_s) ELSE <<>>])

project_not_found == [found |-> FALSE, count |-> 0]

project_stats(docs) ==
    [found |-> TRUE,
     total_publications |-> Len(docs),
     years_distribution |-> Counter(hal_years(docs)),
     top_authors |-> most_common(project_authors(docs), TopTen),
     recent_publications |-> Take(docs, RecentCap)]

project_error(outcome) == [error |-> Cause(outcome)]

get_project_stats(project_name, outcome) ==
    IF outcome.kind # "ok" THEN project_error(outcome)
    ELSE IF outcome.docs = <<>> THEN project_not_found
    ELSE project_stats(outcome.docs)

\* --------------------------------------------- services/hal.py: lab-wide
\* params["fq"] of get_listic_stats
listic_fq(start_year, end_year) ==
    IF Truthy(start_year) \/ Truthy(end_year)
        THEN [set |-> TRUE,
              clauses |-> <<[field |-> "producedDateY_i",
                             lo |-> IF Truthy(start_year) THEN start_year ELSE Star,
                             hi |-> IF Truthy(end_year) THEN end_year ELSE Star]>>]
        ELSE [set |-> FALSE]

listic_params(start_year, end_year) ==
    [q |-> [field |-> "structAcronym_s", phrase |-> <<"L", "I", "S", "T", "I", "C">>],
     rows |-> 0,
     facet |-> "true",
     fq |-> listic_fq(start_year, end_year)]

\* str(n) of a non-negative integer
RECURSIVE str_int(_)
str_int(n) ==
    IF n < 10 THEN <<Digits[n + 1]>> ELSE str_int(n \div 10) \o <<Digits[(n % 10) + 1]>>

\* str(x) of a facet name
str(x) == IF x.t = "int" THEN str_int(x.i) ELSE x.v

\* flat_list[i+1] past the end raises IndexError
parse_raises(flat_list) == Len(flat_list) % 2 = 1

\* parse_facet: [name1, count1, name2, count2, ...] to [{name, value}, ...]
parse_facet(flat_list) ==
    [j \in 1..(Len(flat_list) \div 2) |->
        [name |-> str(flat_list[2 * j - 1]), value |-> flat_list[2 * j]]]

\* key=lambda x: int(x["name"]) if x["name"].isdigit() else 0
year_key(x) == IF isdigit(x.name) THEN int(x.name) ELSE 0

\* Stable sort of items by field n, ascending (list.sort(key=...))
RECURSIVE SortAsc(_)
SortAsc(items) ==
    IF items = <<>> THEN <<>>
    ELSE LET r == SortAsc(SubSeq(items, 1, Len(items) - 1))
             x == items[Len(items)]
             p == Cardinality({i \in 1..Len(r) : r[i].n <= x.n})
         IN SubSeq(r, 1, p) \o <<x>> \o SubSeq(r, p + 1, Len(r))

\* The years facet left in upstream order
sort_years_skipped(years_data) == years_data

\* years_data.sort(...)
sort_years(years_data) ==
    LET keyed == [i \in 1..Len(years_data) |->
                     [n |-> year_key(years_data[i]), v |-> years_data[i]]]
        sorted == SortAsc(keyed)
    IN [i \in 1..Len(sorted) |-> sorted[i].v]

LISTIC == <<"L", "I", "S", "T", "I", "C">>

LABORATOIRE ==
    <<"L", "A", "B", "O", "R", "A", "T", "O", "I", "R", "E", " ", "D", "'",
      "I", "N", "F", "O", "R", "M", "A", "T", "I", "Q", "U", "E">>

\* The structures facet without the lab's own entries
filter_structures(structures_data) ==
    SelectSeq(structures_data, LAMBDA x :
        /\ ~ Contains(LISTIC, upper(x.name))
        /\ ~ Contains(LABORATOIRE, upper(x.name)))

FacetFields ==
    {"producedDateY_i", "keyword_s", "docType_s", "authFullName_s",
     "journalTitle_s", "language_s", "structName_s"}

listic_error(cause) == [error |-> cause]

listic_stats(facet_counts, numFound) ==
    [years |-> sort_years(parse_facet(facet_counts.producedDateY_i)),
     keywords |-> parse_facet(facet_counts.keyword_s),
     types |-> parse_facet(facet_counts.docType_s),
     authors |-> parse_facet(facet_counts.authFullName_s),
     journals |-> parse_facet(facet_counts.journalTitle_s),
     languages |-> parse_facet(facet_counts.language_s),
     structures |-> filter_structures(parse_facet(facet_counts.structName_s)),
     total_docs |-> numFound]

\* The body of get_listic_stats from the response on (the try block)
get_listic_stats(outcome) ==
    IF outcome.kind # "ok" THEN listic_error(Cause(outcome))
    ELSE IF \E f \in FacetFields : parse_raises(outcome.facets[f])
        THEN listic_error("IndexError")
    ELSE listic_stats(outcome.facets, outcome.numFound)

\* ------------------------------------------------------------- main.py
NoCall == [state |-> "idle", n |-> 0, params |-> None, outcome |-> None]

Issue(call, params) ==
    [state |-> "inflight", n |-> call.n + 1, params |-> params, outcome |-> None]

\* A client that sends the GET a second time when the first attempt fails
Complete_retrying(call, outcome) ==
    [state |-> "done",
     n |-> IF outcome.kind = "ok" THEN call.n ELSE call.n + 1,
     params |-> call.params, outcome |-> outcome]

Complete(call, outcome) ==
    [state |-> "done", n |-> call.n, params |-> call.params, outcome |-> outcome]

Pending == [status |-> 0]

\* raise HTTPException(status_code=404, ...)
NotFound == [status |-> 404]

\* An exception that leaves the route handler
ServerError == [status |-> 500]

Ok(body) == [status |-> 200, body |-> body]

\* A handler that gives up on both sources when HAL failed
researcher_body_all_or_nothing(person, hal, dblp) ==
    [profile |-> person,
     stats |-> [hal |-> hal, dblp |-> IF "error" \in DOMAIN hal THEN hal ELSE dblp]]

\* return {"profile": person, "stats": {"hal": hal_data, "dblp": dblp_data}}
researcher_body(person, hal, dblp) ==
    [profile |-> person, stats |-> [hal |-> hal, dblp |-> dblp]]

\* return {"profile": proj, "stats": {"hal": hal_stats}}
project_body(proj, hal) == [profile |-> proj, stats |-> [hal |-> hal]]

\* return {"hal": hal_data, "dblp": {"note": ...}}
global_body(hal) == [hal |-> hal, dblp |-> [note |-> "not available"]]

Init ==
    /\ pc = "idle"
    /\ route = "none"
    /\ req = None
    /\ halCall = NoCall
    /\ dblpCall = NoCall
    /\ hal_data = None
    /\ dblp_data = None
    /\ response = Pending

\* get_researcher_details up to the GET of get_hal_stats. The document found
\* for uid (by _unique_id, then by name) is person, None when there is none.
StartResearcher(Persons, Years, Keywords) ==
    /\ pc = "idle"
    /\ \E person \in Persons \cup {None}, start_year \in Years,
          end_year \in Years, keyword \in Keywords :
        /\ route' = "researcher"
        /\ req' = [person |-> person, start_year |-> start_year,
                   end_year |-> end_year, keyword |-> keyword]
        /\ IF person = None
              THEN /\ response' = NotFound
                   /\ pc' = "done"
                   /\ UNCHANGED halCall
           ELSE IF hal_raises(person.name)
              THEN /\ response' = ServerError
                   /\ pc' = "done"
                   /\ UNCHANGED halCall
           ELSE /\ halCall' = Issue(halCall,
                        hal_params(person.name, start_year, end_year, keyword))
                /\ pc' = "await_hal"
                /\ UNCHANGED response
    /\ UNCHANGED <<dblpCall, hal_data, dblp_data>>

\* hal_data = await get_hal_stats(...): the GET comes back
HalReturn(Outcomes) ==
    /\ pc = "await_hal"
    /\ \E outcome \in Outcomes :
        /\ halCall' = Complete(halCall, outcome)
        /\ hal_data' = get_hal_stats(req.person.name, req.start_year,
                                     req.end_year, req.keyword, outcome)
    /\ pc' = "call_dblp"
    /\ UNCHANGED <<route, req, dblpCall, dblp_data, response>>

\* A handler that narrows the DBLP search by the request's keyword, as the
\* HAL search is
dblp_name_with_keyword(request) ==
    IF request.person.name.t = "str" /\ request.keyword.t = "str"
       THEN JStr(request.person.name.v \o <<" ">> \o request.keyword.v)
       ELSE request.person.name

\* The one argument of get_dblp_stats(name): name = person.get("name"); the
\* request's start_year, end_year and keyword are not passed on
dblp_name(request) == request.person.name

\* dblp_data = await get_dblp_stats(name), up to its GET
CallDblp ==
    /\ pc = "call_dblp"
    /\ IF dblp_raises(dblp_name(req))
          THEN /\ response' = ServerError
               /\ pc' = "done"
               /\ UNCHANGED dblpCall
          ELSE /\ dblpCall' = Issue(dblpCall, dblp_params(dblp_name(req)))
               /\ pc' = "await_dblp"
               /\ UNCHANGED response
    /\ UNCHANGED <<route, req, halCall, hal_data, dblp_data>>

\* The DBLP GET comes back and the handler returns
DblpReturn(Outcomes) ==
    /\ pc = "await_dblp"
    /\ \E outcome \in Outcomes :
        LET dblp == get_dblp_stats(dblp_name(req), outcome)
        IN /\ dblpCall' = Complete(dblpCall, outcome)
           /\ dblp_data' = dblp
           /\ response' = Ok(researcher_body(req.person, hal_data, dblp))
    /\ pc' = "done"
    /\ UNCHANGED <<route, req, halCall, hal_data>>

\* get_project_details up to the GET of get_project_stats
StartProject(Projects) ==
    /\ pc = "idle"
    /\ \E proj \in Projects \cup {None} :
        /\ route' = "project"
        /\ req' = [proj |-> proj]
        /\ IF proj = None
              THEN /\ response' = NotFound
                   /\ pc' = "done"
                   /\ UNCHANGED halCall
              ELSE /\ halCall' = Issue(halCall, project_params(proj.NOM))
                   /\ pc' = "await_project"
                   /\ UNCHANGED response
    /\ UNCHANGED <<dblpCall, hal_data, dblp_data>>

ProjectReturn(Outcomes) ==
    /\ pc = "await_project"
    /\ \E outcome \in Outcomes :
        LET hal == get_project_stats(req.proj.NOM, outcome)
        IN /\ halCall' = Complete(halCall, outcome)
           /\ hal_data' = hal
           /\ response' = Ok(project_body(req.proj, hal))
    /\ pc' = "done"
    /\ UNCHANGED <<route, req, dblpCall, dblp_data>>

\* get_global_stats up to the GET of get_listic_stats
StartGlobal(Years) ==
    /\ pc = "idle"
    /\ \E start_year \in Years, end_year \in Years :
        /\ route' = "global"
        /\ req' = [start_year |-> start_year, end_year |-> end_year]
        /\ halCall' = Issue(halCall, listic_params(start_year, end_year))
    /\ pc' = "await_listic"
    /\ UNCHANGED <<dblpCall, hal_data, dblp_data, response>>

ListicReturn(Outcomes) ==
    /\ pc = "await_listic"
    /\ \E outcome \in Outcomes :
        LET hal == get_listic_stats(outcome)
        IN /\ halCall' = Complete(halCall, outcome)
           /\ hal_data' = hal
           /\ response' = Ok(global_body(hal))
    /\ pc' = "done"
    /\ UNCHANGED <<route, req, dblpCall, dblp_data>>

\* The response is sent; the worker takes the next request
Finish ==
    /\ pc = "done"
    /\ pc' = "idle"
    /\ route' = "none"
    /\ req' = None
    /\ halCall' = NoCall
    /\ dblpCall' = NoCall
    /\ hal_data' = None
    /\ dblp_data' = None
    /\ response' = Pending

\* ------------------------------------------------------------ input sets
OptYears(S) == {None} \cup {JInt(y) : y \in S}

HalDoc(year, type, kws, authors, journal) ==
    [producedDateY_i |-> year, docType_s |-> type, keyword_s |-> kws,
     authFullName_s |-> authors, journalTitle_s |-> journal]

Hit(authors, year, type, venue) ==
    [authors |-> authors, year |-> year, type |-> type, venue |-> venue,
     title |-> JStr(<<"t">>), url |-> None]

OkDocs(DocLists) == {[kind |-> "ok", docs |-> l] : l \in DocLists}

OkHits(HitLists) == {[kind |-> "ok", hits |-> l] : l \in HitLists}

NameAB == <<"a", " ", "b">>

\* The routes under every combination of upstream outcomes
BasePersons == {[name |-> None], [name |-> JStr(NameAB)]}

BaseYears == OptYears({1, 2})

BaseKeywords == {None, JStr(<<"k">>)}

BaseDocs ==
    {HalDoc(JInt(1), JStr(<<"A">>), JStr(<<"k">>), JStr(NameAB), JStr(<<"j">>)),
     HalDoc(JInt(2), None, None, JList(<<JStr(NameAB), JStr(<<"c">>)>>), None)}

BaseHits ==
    {Hit(JStr(NameAB), JStr(<<"1">>), JStr(<<"A">>), JStr(<<"v">>)),
     Hit(JList(<<JStr(<<"c">>), JDict(JStr(NameAB))>>), JStr(<<"2">>), None, None)}

BaseHalOutcomes == Failures \cup OkDocs(SeqsUpTo(BaseDocs, MaxDocs))

BaseDblpOutcomes == Failures \cup OkHits(SeqsUpTo(BaseHits, MaxDocs))

BaseProjects == {[NOM |-> None], [NOM |-> JStr(<<"p">>)]}

Facets(years, keywords, structures) ==
    [producedDateY_i |-> years, keyword_s |-> keywords, docType_s |-> <<>>,
     authFullName_s |-> <<>>, journalTitle_s |-> <<>>, language_s |-> <<>>,
     structName_s |-> structures]

BaseListicOutcomes ==
    Failures \cup
    {[kind |-> "ok", facets |-> Facets(y, k, <<>>), numFound |-> 1] :
        y \in {<<>>, <<JStr(<<"2">>), JInt(1), JStr(<<"1">>), JInt(2)>>},
        k \in {<<>>, <<JStr(<<"k">>)>>}}

Next ==
    \/ StartResearcher(BasePersons, BaseYears, BaseKeywords)
    \/ HalReturn(BaseHalOutcomes)
    \/ CallDblp
    \/ DblpReturn(BaseDblpOutcomes)
    \/ StartProject(BaseProjects)
    \/ ProjectReturn(BaseHalOutcomes)
    \/ StartGlobal(BaseYears)
    \/ ListicReturn(BaseListicOutcomes)
    \/ Finish

Spec == Init /\ [][Next]_vars

\* Person lookups whose filters and record years cover 0, the bounds and
\* their neighbours
FilterPersons == {[name |-> JStr(NameAB)]}

FilterYears == OptYears(0..MaxYear)

FilterKeywords == {None, JStr(<<"K">>)}

FilterDocs ==
    {HalDoc(y, JStr(<<"A">>), k, JStr(<<"c">>), None) :
        y \in OptYears(0..MaxYear),
        k \in {None, JList(<<JStr(<<"x">>), JStr(<<"k", "y">>)>>)}}

FilterHalOutcomes ==
    {[kind |-> "timeout"]} \cup OkDocs(SeqsUpTo(FilterDocs, MaxFilterDocs))

FilterDblpOutcomes == {[kind |-> "timeout"]} \cup OkHits({<<>>})

NextFilter ==
    \/ StartResearcher(FilterPersons, FilterYears, FilterKeywords)
    \/ HalReturn(FilterHalOutcomes)
    \/ CallDblp
    \/ DblpReturn(FilterDblpOutcomes)
    \/ Finish

SpecFilter == Init /\ [][NextFilter]_vars

\* Person lookups whose upstream record lists are long enough to be cut
\* and come in every order
RecentDocs ==
    {HalDoc(y, None, None, None, None) : y \in OptYears({2})}

RecentHits == {Hit(None, y, None, None) : y \in {None, JStr(<<"2">>)}}

RecentHalOutcomes == OkDocs(SeqsUpTo(RecentDocs, MaxRecent))

RecentDblpOutcomes == OkHits(SeqsUpTo(RecentHits, MaxRecent))

NextRecent ==
    \/ StartResearcher(FilterPersons, {None}, {None})
    \/ HalReturn(RecentHalOutcomes)
    \/ CallDblp
    \/ DblpReturn(RecentDblpOutcomes)
    \/ Finish

SpecRecent == Init /\ [][NextRecent]_vars

\* Person lookups over subject names with repeated whitespace and mixed
\* case, and every shape of the author field
NameChars == {"a", "A", " "}

AuthorPersons ==
    {[name |-> JStr(n)] : n \in UNION {[1..k -> NameChars] : k \in 1..MaxNameLen}}

AuthorNames == {<<"a">>, <<"A", " ", "a">>, <<"a", " ", "a">>}

AuthorDocs ==
    {HalDoc(None, None, None, a, None) :
        a \in {None} \cup {JStr(n) : n \in AuthorNames}
                     \cup {JList(<<JStr(n), JStr(<<"c">>)>>) : n \in AuthorNames}}

AuthorHits ==
    {Hit(a, None, None, None) :
        a \in {None, JDict(None)}
              \cup {JStr(n) : n \in AuthorNames}
              \cup {JDict(JStr(n)) : n \in AuthorNames}
              \cup {JList(<<JStr(n), JStr(<<"c">>)>>) : n \in AuthorNames}
              \cup {JList(<<JDict(JStr(n))>>) : n \in AuthorNames}}

AuthorHalOutcomes == OkDocs({<<d>> : d \in AuthorDocs})

AuthorDblpOutcomes == OkHits({<<h>> : h \in AuthorHits})

NextAuthors ==
    \/ StartResearcher(AuthorPersons, {None}, {None})
    \/ HalReturn(AuthorHalOutcomes)
    \/ CallDblp
    \/ DblpReturn(AuthorDblpOutcomes)
    \/ Finish

SpecAuthors == Init /\ [][NextAuthors]_vars

\* Lab-wide lookups over facet lists of every order, with numeric and
\* non-numeric names, and a list cut short
FacetNames == {JStr(<<"1">>), JStr(<<"2">>), JStr(<<"1", "0">>), JStr(<<"x">>), JInt(3)}

FacetPairs == {<<n, JInt(c)>> : n \in FacetNames, c \in {1, 2}}

FlatLists == {Concat(l) : l \in SeqsUpTo(FacetPairs, MaxPairs)}

OddLists == {<<JStr(<<"1">>)>>}

StructureLists ==
    {<<>>,
     <<JStr(<<"L", "I", "G">>), JInt(2), JStr(<<"l", "i", "s", "t", "i", "c">>), JInt(1)>>}

LabOutcomes ==
    {[kind |-> "timeout"]} \cup
    {[kind |-> "ok", facets |-> Facets(y, k, st), numFound |-> 1] :
        y \in FlatLists \cup OddLists,
        k \in {<<>>, <<JStr(<<"2">>), JInt(1), JStr(<<"1">>), JInt(1)>>},
        st \in StructureLists}

NextLab ==
    \/ StartGlobal(BaseYears)
    \/ ListicReturn(LabOutcomes)
    \/ Finish

SpecLab == Init /\ [][NextLab]_vars

\* ================================================================ claims
\* A finished person lookup whose two fetches both came back
PersonDone ==
    /\ pc = "done"
    /\ route = "researcher"
    /\ halCall.state = "done"
    /\ dblpCall.state = "done"

\* C1: in a person lookup, whatever the HAL fetch and the DBLP fetch come
\* back with (a document, a timeout, a non-2xx status, malformed JSON), the
\* handler answers 200 and each block is decided by its own source's outcome
\* alone: a failed source gives {error: cause, source: its name}, and the
\* other block is the statistics object of that source's own response.
C1_PartialFailureIsolated ==
    (pc = "done" /\ route = "researcher" /\ halCall.n > 0) =>
        /\ PersonDone
        /\ response.status = 200
        /\ LET hal == response.body.stats.hal
               dblp == response.body.stats.dblp
               name == req.person.name
           IN /\ hal = get_hal_stats(name, req.start_year, req.end_year,
                                     req.keyword, halCall.outcome)
              /\ dblp = get_dblp_stats(name, dblpCall.outcome)
              /\ halCall.outcome \in Failures =>
                    hal = [error |-> Cause(halCall.outcome), source |-> "HAL"]
              /\ dblpCall.outcome \in Failures =>
                    dblp = [error |-> Cause(dblpCall.outcome), source |-> "DBLP"]
              /\ halCall.outcome.kind = "ok" =>
                    ("found" \in DOMAIN hal /\ "error" \notin DOMAIN hal)
              /\ (/\ dblpCall.outcome.kind = "ok"
                  /\ \A i \in 1..Len(dblpCall.outcome.hits) :
                        ~ hit_raises(dblpCall.outcome.hits[i])) =>
                    ("found" \in DOMAIN dblp /\ "error" \notin DOMAIN dblp)

\* DBLP timed out while HAL delivered records: populated hal, error-tagged dblp
C1_Witness ==
    /\ PersonDone
    /\ halCall.outcome.kind = "ok"
    /\ dblpCall.outcome.kind = "timeout"
    /\ response.status = 200
    /\ "found" \in DOMAIN response.body.stats.hal
    /\ response.body.stats.hal.total_publications > 0
    /\ response.body.stats.dblp = [error |-> "timeout", source |-> "DBLP"]

\* C2: no stats entry point raises to its caller, whatever subject the
\* routing layer passes (a profile without a name gives None) and whatever
\* the upstream does: the handler never ends in an unhandled exception.
C2_NeverRaises == response.status # 500

\* C4: in a person lookup the DBLP call is issued while the HAL call is
\* still in flight, and the response is composed after both have finished.
C4_IssuedConcurrently ==
    [][/\ (dblpCall.state = "idle" /\ dblpCall'.state = "inflight")
            => halCall'.state = "inflight"
       /\ (response.status = 0 /\ response'.status = 200 /\ route' = "researcher")
            => (halCall'.state = "done" /\ dblpCall'.state = "done")]_vars

\* The HAL block of a finished person lookup, and what it was computed from
HalBlock == response.body.stats.hal

DblpBlock == response.body.stats.dblp

HalOk == PersonDone /\ halCall.outcome.kind = "ok"

DblpOk == PersonDone /\ dblpCall.outcome.kind = "ok"

Remaining ==
    filtered_docs(halCall.outcome.docs, req.start_year, req.end_year, req.keyword)

AllEmpty(h) ==
    /\ {"total_publications", "years_distribution", "types_distribution",
        "top_keywords", "top_collaborators", "top_journals",
        "recent_publications"} \subseteq DOMAIN h
    /\ h.total_publications = 0
    /\ h.years_distribution = <<>>
    /\ h.types_distribution = <<>>
    /\ h.top_keywords = <<>>
    /\ h.top_collaborators = <<>>
    /\ h.top_journals = <<>>
    /\ h.recent_publications = <<>>

\* C3 as stated: when the upstream call succeeds and no record remains after
\* the local year/keyword filter, get_hal_stats returns a successful object
\* with found=false and everything empty; found=false in no other case; an
\* upstream failure gives the error variant.
C3_EmptyIsNotFound ==
    PersonDone =>
        /\ (halCall.outcome.kind = "ok" /\ Remaining = <<>>) =>
              (/\ "error" \notin DOMAIN HalBlock
               /\ HalBlock.found = FALSE
               /\ AllEmpty(HalBlock))
        /\ (halCall.outcome.kind = "ok" /\ Remaining # <<>>) =>
              HalBlock.found = TRUE
        /\ halCall.outcome.kind # "ok" =>
              ("error" \in DOMAIN HalBlock /\ "found" \notin DOMAIN HalBlock)

\* What get_hal_stats does instead: the empty result is a successful object
\* with found=true and everything empty, found=false is never returned, and
\* an upstream failure gives the error variant, which carries no found field.
HalEmptyIsFoundTrue ==
    PersonDone =>
        /\ (halCall.outcome.kind = "ok" /\ Remaining = <<>>) =>
              (/\ "error" \notin DOMAIN HalBlock
               /\ "found" \in DOMAIN HalBlock
               /\ HalBlock.found = TRUE
               /\ AllEmpty(HalBlock))
        /\ (halCall.outcome.kind = "ok" /\ Remaining # <<>>) =>
              (/\ "error" \notin DOMAIN HalBlock
               /\ HalBlock.found = TRUE
               /\ HalBlock.total_publications = Len(Remaining))
        /\ halCall.outcome.kind # "ok" =>
              ("error" \in DOMAIN HalBlock /\ "found" \notin DOMAIN HalBlock)

\* Records came back, all outside the requested years: an empty success
HalEmptyReached ==
    /\ HalOk
    /\ halCall.outcome.docs # <<>>
    /\ Remaining = <<>>
    /\ req.keyword = None
    /\ response.status = 200
    /\ HalBlock.found = TRUE
    /\ HalBlock.total_publications = 0

\* The year filter as the claim states it: a record with a known year y is
\* kept iff (start_year absent or y >= start_year) and (end_year absent or
\* y <= end_year); a record with unknown year is kept.
KeptByYear(d, start_year, end_year) ==
    \/ d.producedDateY_i = None
    \/ /\ (start_year = None \/ d.producedDateY_i.i >= start_year.i)
       /\ (end_year = None \/ d.producedDateY_i.i <= end_year.i)

\* C5: with no keyword filter, the records get_hal_stats counts are exactly
\* those the stated year filter keeps, for every start_year and end_year
\* (absent, 0 or positive) and every record year (unknown, 0 or positive).
C5_YearFilter ==
    (HalOk /\ req.keyword = None) =>
        HalBlock.total_publications =
            Len(SelectSeq(halCall.outcome.docs,
                          LAMBDA d : KeptByYear(d, req.start_year, req.end_year)))

\* C6: the HAL person query carries fq whenever a filter is given: the year
\* clause when start_year or end_year is given, the keyword clause when
\* keyword is given, both (joined by AND) when both are; no fq otherwise.
C6_FilterQuery ==
    (route = "researcher" /\ halCall.state # "idle") =>
        LET fq == halCall.params.fq
            years == req.start_year # None \/ req.end_year # None
            kw == req.keyword # None
            fields == IF fq.set
                         THEN {fq.clauses[i].field : i \in 1..Len(fq.clauses)}
                         ELSE {}
        IN /\ fq.set <=> (years \/ kw)
           /\ ("producedDateY_i" \in fields) <=> years
           /\ ("keyword_s" \in fields) <=> kw

\* Sum of the counts of a distribution
DistSum(h) == IF "years_distribution" \in DOMAIN h THEN SumN(h.years_distribution) ELSE 0

Total(h) == IF "total_publications" \in DOMAIN h THEN h.total_publications ELSE 0

\* C7: in every statistics object of get_hal_stats, get_dblp_stats and
\* get_project_stats the counts of years_distribution sum to at most
\* total_publications, and to exactly total_publications when every counted
\* record has a known year (a year of 0 included).
C7_YearsSum ==
    /\ HalOk =>
          /\ DistSum(HalBlock) <= Total(HalBlock)
          /\ (\A i \in 1..Len(Remaining) : Remaining[i].producedDateY_i # None)
                => DistSum(HalBlock) = Total(HalBlock)
    /\ (DblpOk /\ "error" \notin DOMAIN DblpBlock) =>
          /\ DistSum(DblpBlock) <= Total(DblpBlock)
          /\ (\A i \in 1..Len(dblpCall.outcome.hits) :
                    dblpCall.outcome.hits[i].year # None)
                => DistSum(DblpBlock) = Total(DblpBlock)
    /\ (pc = "done" /\ route = "project" /\ halCall.state = "done"
            /\ halCall.outcome.kind = "ok") =>
          /\ DistSum(response.body.stats.hal) <= Total(response.body.stats.hal)
          /\ (\A i \in 1..Len(halCall.outcome.docs) :
                    halCall.outcome.docs[i].producedDateY_i # None)
                => DistSum(response.body.stats.hal) = Total(response.body.stats.hal)

\* Runs of whitespace collapsed to one space
RECURSIVE CollapseRuns(_)
CollapseRuns(s) ==
    IF s = <<>> THEN <<>>
    ELSE IF IsSpace(Head(s)) /\ Len(s) > 1 /\ IsSpace(s[2]) THEN CollapseRuns(Tail(s))
    ELSE <<Head(s)>> \o CollapseRuns(Tail(s))

SameName(a, b) == lower(CollapseRuns(a)) = lower(CollapseRuns(b))

Collaborators(h) ==
    IF "top_collaborators" \in DOMAIN h THEN h.top_collaborators ELSE <<>>

\* C8: neither get_hal_stats nor get_dblp_stats lists as a collaborator an
\* author whose name equals the subject's after collapsing runs of whitespace
\* and ignoring case, whatever the shape of the author field and however the
\* subject's name is spaced.
C8_SelfExcluded ==
    PersonDone =>
        /\ \A i \in 1..Len(Collaborators(HalBlock)) :
              ~ SameName(Collaborators(HalBlock)[i].k, req.person.name.v)
        /\ \A i \in 1..Len(Collaborators(DblpBlock)) :
              ~ SameName(Collaborators(DblpBlock)[i].k, req.person.name.v)

\* The year a record sorts by: its year, 0 when missing
HalYearKey(d) == IF d.producedDateY_i = None THEN 0 ELSE d.producedDateY_i.i

DblpYearKey(h) == IF h.year = None THEN 0 ELSE int(h.year.v)

YearKeys(recs, K(_)) == [i \in 1..Len(recs) |-> [n |-> K(recs[i])]]

Recent(h) ==
    IF "recent_publications" \in DOMAIN h THEN h.recent_publications ELSE <<>>

\* C9: recent_publications of get_hal_stats and of get_dblp_stats holds at
\* most 5 records, and their years are the first 5 of the whole filtered
\* record set sorted by year descending (missing year as 0), in whatever
\* order the upstream delivered the records.
C9_RecentSorted ==
    /\ HalOk =>
          /\ Len(Recent(HalBlock)) <= RecentCap
          /\ YearKeys(Recent(HalBlock), HalYearKey)
                = Take(SortDesc(YearKeys(Remaining, HalYearKey)), RecentCap)
    /\ (DblpOk /\ "error" \notin DOMAIN DblpBlock) =>
          /\ Len(Recent(DblpBlock)) <= RecentCap
          /\ YearKeys(Recent(DblpBlock), DblpYearKey)
                = Take(SortDesc(YearKeys(dblpCall.outcome.hits, DblpYearKey)), RecentCap)

\* A finished lab-wide lookup whose facet lists all alternate name, count
LabOk ==
    /\ pc = "done"
    /\ route = "global"
    /\ halCall.state = "done"
    /\ halCall.outcome.kind = "ok"
    /\ \A f \in FacetFields : Len(halCall.outcome.facets[f]) % 2 = 0

\* out holds the pairs of flat, one for one and in the same order
SamePairs(out, flat) ==
    /\ 2 * Len(out) = Len(flat)
    /\ \A j \in 1..Len(out) :
          /\ out[j].name = str(flat[2 * j - 1])
          /\ out[j].value = flat[2 * j]

\* Numeric value of a facet name, 0 when it is not a number
NumericValue(name) == IF isdigit(name) THEN int(name) ELSE 0

\* out holds the pairs of flat, each as often as flat does
SamePairsAnyOrder(out, flat) ==
    /\ 2 * Len(out) = Len(flat)
    /\ \A j \in 1..Len(out) :
          Cardinality({i \in 1..Len(out) : out[i] = out[j]})
            = Cardinality({i \in 1..Len(out) :
                            /\ str(flat[2 * i - 1]) = out[j].name
                            /\ flat[2 * i] = out[j].value})

\* C10: get_listic_stats turns each flat list [name1, count1, name2, ...]
\* into its {name, value} pairs in upstream order; the years facet holds the
\* same pairs ordered ascending by the numeric value of the name, a
\* non-numeric name counting as 0; apart from structures no pair is lost or
\* invented.
C10_FacetTranslation ==
    LabOk =>
        LET out == response.body.hal
            facets == halCall.outcome.facets
        IN /\ "error" \notin DOMAIN out
           /\ SamePairs(out.keywords, facets.keyword_s)
           /\ SamePairs(out.types, facets.docType_s)
           /\ SamePairs(out.authors, facets.authFullName_s)
           /\ SamePairs(out.journals, facets.journalTitle_s)
           /\ SamePairs(out.languages, facets.language_s)
           /\ SamePairsAnyOrder(out.years, facets.producedDateY_i)
           /\ \A i, j \in 1..Len(out.years) :
                 i < j => NumericValue(out.years[i].name) <= NumericValue(out.years[j].name)

\* A years facet delivered as ["2", n, "x", m] comes out with x first, and
\* the keywords facet keeps its upstream order
C10_Witness ==
    /\ LabOk
    /\ Len(halCall.outcome.facets.producedDateY_i) = 4
    /\ halCall.outcome.facets.producedDateY_i[1] = JStr(<<"2">>)
    /\ halCall.outcome.facets.producedDateY_i[3] = JStr(<<"x">>)
    /\ response.status = 200
    /\ response.body.hal.years[1].name = <<"x">>
    /\ response.body.hal.years[2].name = <<"2">>
    /\ Len(response.body.hal.keywords) = 2
    /\ response.body.hal.keywords[1].name = <<"2">>

\* The number of GETs a request has sent to HAL and to DBLP so far
HalCalls == halCall.n

DblpCalls == dblpCall.n

GlobalDone ==
    /\ pc = "done"
    /\ route = "global"

\* C11: no request sends more than one GET to HAL or more than one to DBLP,
\* and a GET that has come back, failed or not, has been sent exactly once
\* (no retry); a /global-stats request sends no GET to DBLP at any point, and
\* when it is answered it has sent exactly one GET to HAL and its dblp block
\* is the fixed note, whatever the HAL GET came back with.
C11_OneCallNoRetry ==
    /\ HalCalls <= 1
    /\ DblpCalls <= 1
    /\ halCall.state = "done" => HalCalls = 1
    /\ dblpCall.state = "done" => DblpCalls = 1
    /\ halCall.state = "idle" => HalCalls = 0
    /\ dblpCall.state = "idle" => DblpCalls = 0
    /\ route = "global" => DblpCalls = 0
    /\ GlobalDone =>
           /\ HalCalls = 1
           /\ halCall.state = "done"
           /\ response.status = 200
           /\ response.body.dblp = [note |-> "not available"]

\* A /global-stats request whose HAL GET timed out: one GET sent, none to
\* DBLP, the hal block carries the error and the dblp block is the note
C11_Witness ==
    /\ GlobalDone
    /\ halCall.outcome.kind = "timeout"
    /\ HalCalls = 1
    /\ DblpCalls = 0
    /\ "error" \in DOMAIN response.body.hal
    /\ response.body.dblp = [note |-> "not available"]

\* The requests for the same researcher that differ from the current one
\* only in start_year, end_year or keyword
OtherFilters ==
    {[person |-> req.person, start_year |-> start_year,
      end_year |-> end_year, keyword |-> keyword] :
        start_year \in BaseYears, end_year \in BaseYears,
        keyword \in BaseKeywords}

\* C12: in a person lookup, every request for the same researcher with other
\* values of start_year, end_year and keyword sends the same query to DBLP
\* as the query this request sent and, given the same DBLP response, gets the
\* same dblp block as the block this request returned.
C12_DblpIgnoresFilters ==
    (route = "researcher" /\ dblpCall.state # "idle") =>
        \A other \in OtherFilters :
            /\ ~dblp_raises(dblp_name(other))
            /\ dblp_params(dblp_name(other)) = dblpCall.params
            /\ dblpCall.state = "done" =>
                   /\ response.status = 200
                   /\ get_dblp_stats(dblp_name(other), dblpCall.outcome) = DblpBlock

\* A lookup with start_year 2 and keyword k: HAL returned two documents and
\* the hal block counts fewer, DBLP returned two hits, one of year 1, and
\* the dblp block counts both; the DBLP query is the name alone
C12_Witness ==
    /\ HalOk
    /\ DblpOk
    /\ req.start_year = JInt(2)
    /\ req.keyword = JStr(<<"k">>)
    /\ Len(halCall.outcome.docs) = 2
    /\ Total(HalBlock) < 2
    /\ Len(dblpCall.outcome.hits) = 2
    /\ \E i \in 1..2 : dblpCall.outcome.hits[i].year = JStr(<<"1">>)
    /\ DblpBlock.total_publications = 2
    /\ dblpCall.params.q = NameAB

====
